---- MODULE Spec2Model ----
(***************************************************************************)
(* Model of scripts/repair_bible_database.py (the reconciliation engine)   *)
(* together with the store schema it runs against, which is created by     *)
(* scripts/build_bible_database.py and scripts/build_bible_simple.py.      *)
(*                                                                         *)
(* The engine is one sequential procedure; it is cut into steps at every   *)
(* call that leaves the process (SELECT, HTTP GET, INSERT, sleep, COMMIT), *)
(* so that other connections to the shared SQLite file can act in between. *)
(*                                                                         *)
(* Scale: the canonical tables keep two of their 66 documents, Obadiah and *)
(* Haggai, with the source's own numbers; the source table keeps two of    *)
(* its three translations.                                                 *)
(***************************************************************************)
EXTENDS Integers, Sequences, FiniteSets, Bags, TLC

\* ---------------------------------------------------------------- bounds
\* longest "verses" list a chapter payload carries
MaxPayloadLen == 2
\* rows another connection inserts during one run
MaxOtherWrites == 1

\* ------------------------------------------------------- program constants
\* for attempt in range(3)
InsertAttempts == 3
\* for attempt in range(5)
CommitAttempts == 5
\* time.sleep(1) before an INSERT is retried, in milliseconds
InsertRetryDelay == 1000
\* time.sleep(2) before a COMMIT is retried, in milliseconds
CommitRetryDelay == 2000
\* time.sleep(0.1) after a chapter, in milliseconds
RequestDelay == 100

\* dict.get(key, default)
Get(d, k, default) == IF k \in DOMAIN d THEN d[k] ELSE default

\* TRANSLATIONS, in dict order (main iterates TRANSLATIONS.keys())
TranslationKeys == <<"KJV", "ASV">>
TRANSLATIONS == ("KJV" :> "en-kjv") @@ ("ASV" :> "en-asv")

BOOK_NAMES == ("Obadiah" :> "obadiah") @@ ("Haggai" :> "haggai")
VERSE_COUNTS == ("Obadiah" :> 21) @@ ("Haggai" :> 38)
CHAPTERS == ("Obadiah" :> 1) @@ ("Haggai" :> 2)

\* faulty variant: the rows as a SELECT without ORDER BY may return them
BooksTableUnordered ==
  << [id |-> 37, name |-> "Haggai"],
     [id |-> 35, name |-> "Tobit"],
     [id |-> 31, name |-> "Obadiah"] >>

\* rows of the books table, ORDER BY id; "Tobit" is a row the tables of the
\* engine do not know
BooksTable ==
  << [id |-> 31, name |-> "Obadiah"],
     [id |-> 35, name |-> "Tobit"],
     [id |-> 37, name |-> "Haggai"] >>

\* ------------------------------------------------------------ the store
\* A row of verses without its AUTOINCREMENT id; the store is a bag of rows,
\* so two rows that agree on every column are two units.
Row(t, b, c, v, x) ==
  [translation_id |-> t, book_id |-> b, chapter |-> c, verse |-> v, text |-> x]

Key(r) == <<r.translation_id, r.book_id, r.chapter, r.verse>>

RowsWithKey(store, k) == {r \in BagToSet(store) : Key(r) = k}

\* number of units the store holds under key k
KeyCount(store, k) ==
  LET rs == RowsWithKey(store, k)
  IN  IF rs = {} THEN 0 ELSE BagCardinality([r \in rs |-> store[r]])

Keys(store) == {Key(r) : r \in BagToSet(store)}

NoDuplicateKeys(store) == \A k \in Keys(store) : KeyCount(store, k) = 1

\* CREATE TABLE verses declares no UNIQUE constraint on
\* (translation_id, book_id, chapter, verse); idx_verses_lookup is a plain index
VersesUniqueKey == FALSE

\* INSERT raises sqlite3.IntegrityError
StoreRejects(store, row) == VersesUniqueKey /\ KeyCount(store, Key(row)) > 0

\* faulty variant: INSERT OR REPLACE, which deletes the rows of the same key
InsertOrReplaceRow(store, row) ==
  LET keep == {r \in BagToSet(store) : Key(r) # Key(row)}
  IN  [r \in keep |-> store[r]] (+) SetToBag({row})

\* INSERT INTO verses ... VALUES (?, ?, ?, ?, ?)
InsertRow(store, row) == store (+) SetToBag({row})

\* ------------------------------------------------------ provider payloads
IntV(n) == [t |-> "int", n |-> n]
StrV(n) == [t |-> "str", n |-> n]

\* one element of the "verses" list: a JSON object with its 'verse' (or
\* 'number') and 'text' members, a missing member read as its default
Unit(v, x) == [isdict |-> TRUE, verse |-> v, text |-> x]
\* an element that is no JSON object (a string, a number)
NonDict == [isdict |-> FALSE, verse |-> IntV(0), text |-> ""]

Items ==
  {Unit(IntV(1), "new"), Unit(StrV(1), "new"), Unit(IntV(0), "new"),
   Unit(StrV(0), "new"), Unit(IntV(1), ""), NonDict}

ItemLists == UNION {[1..n -> Items] : n \in 0..MaxPayloadLen}

\* what download_chapter returns
NoneVal == [kind |-> "none", items |-> <<>>]
NonList == [kind |-> "nonlist", items |-> <<>>]
ListVal(s) == [kind |-> "list", items |-> s]
Payloads == {NoneVal, NonList} \cup {ListVal(s) : s \in ItemLists}

\* a unit whose verse number is the string "0"
ZeroString == Unit(StrV(0), "new")
\* the answers of a provider that answers every request on its own; the unit
\* ZeroString is left to the provider that gives one answer to every request
FreePayloads ==
  {p \in Payloads : \A i \in DOMAIN p.items : p.items[i] # ZeroString}

\* the provider is free to answer each request as it likes
AnyVal == [kind |-> "any", items |-> <<>>]

\* ------------------------------------------------------------------ state
VARIABLES
  pc,              \* position of the engine
  entry,           \* "main": main() drives the sources; "repair": one call of repair_translation
  run,             \* number of the current invocation (1, 2)
  ti,              \* main: index of the current source in TranslationKeys
  translation_id,  \* repair_translation: its argument
  bi,              \* index of the current row of books
  existing,        \* get_existing_verses(conn, translation_id, book_id)
  chapter,         \* loop variable of the chapter loop
  chapter_verses,  \* download_chapter(...); once the verse loop runs, what its iterator still holds
  attempt,         \* loop variable of the running retry loop
  book_added, total_added, total_missing,
  err,             \* the exception that left repair_translation, "none" if none
  db,              \* committed rows of verses
  work,            \* verses as the engine's connection reads it: db and its own uncommitted inserts
  other,           \* what the other connections to the file do
  otherWrites,     \* rows other connections inserted in this run
  prov,            \* the provider's fixed answer, AnyVal when it is free
  start_db,        \* history: db when the run started
  scanned,         \* history: <<source, book_id>> -> len(existing) at the scan, -1 before
  fetched,         \* history: <<source, book_id, chapter>> of every bulk request
  failedFetch,     \* history: the requests among them that returned None
  inserts,         \* history: bag of the keys the engine inserted successfully
  tried,           \* history: keys whose INSERT statement the engine has completed
  raced,           \* history: keys another connection inserted after the engine's scan of their document
  attempts,        \* history: INSERT / COMMIT attempts made for the running unit / document
  delays,          \* history: milliseconds slept before each retry of the running retry loop
  first_keys,      \* history: key set of the store at the end of run 1
  first_err,       \* history: err at the end of run 1
  first_scanned,   \* history: scanned at the end of run 1
  log,             \* history: the scans, bulk requests, inserts, chapter delays and commits done, in order
  eval_in,         \* the arguments DocDecision is applied to on its own
  eval_out         \* its result, "none" before

vars ==
  << pc, entry, run, ti, translation_id, bi, existing, chapter, chapter_verses,
     attempt, book_added, total_added, total_missing, err, db, work, other,
     otherWrites, prov, start_db, scanned, fetched, failedFetch, inserts, tried,
     raced, attempts, delays, first_keys, first_err, first_scanned, log, eval_in, eval_out >>

inputVars == << prov, eval_in, eval_out >>

engineVars ==
  << pc, ti, translation_id, bi, existing, chapter, chapter_verses, attempt,
     book_added, total_added, total_missing, err >>

historyVars ==
  << start_db, scanned, fetched, failedFetch, inserts, tried, raced, attempts, delays,
     first_keys, first_err, first_scanned, log >>

\* the engine's connection holds the write lock from its first INSERT to COMMIT
InTxn == work # db

BookIds == {BooksTable[i].id : i \in 1..Len(BooksTable)}
Docs == {<<t, BooksTable[i].id>> : t \in DOMAIN TRANSLATIONS, i \in 1..Len(BooksTable)}
BookName(b) == BooksTable[CHOOSE i \in 1..Len(BooksTable) : BooksTable[i].id = b].name

\* ------------------------------------------------------------ initial store
\* verses 2..20 of Obadiah (19 of its 21)
ObadiahRows(t) == {Row(t, 31, 1, v, "old") : v \in 2..20}
\* Haggai but for 1:1 (37 of its 38: 1:2..1:15 and 2:1..2:23)
HaggaiRows(t) ==
  {Row(t, 37, 1, v, "old") : v \in 2..15} \cup {Row(t, 37, 2, v, "old") : v \in 1..23}

\* KJV: Obadiah 19 or 20 of 21, Haggai 37 of 38;
\* ASV: Obadiah 20 of 21, Haggai 1:1 alone or nothing
InitialStores ==
  { SetToBag(ObadiahRows("KJV") \cup o \cup HaggaiRows("KJV")
             \cup ObadiahRows("ASV") \cup {Row("ASV", 31, 1, 21, "old")} \cup h) :
      o \in SUBSET {Row("KJV", 31, 1, 1, "old")},
      h \in SUBSET {Row("ASV", 37, 1, 1, "old")} }

NoEval == [names |-> BOOK_NAMES, counts |-> VERSE_COUNTS, book_name |-> "", n |-> 0]

NoScan == [d \in Docs |-> -1]

InitCommon ==
  /\ run = 1
  /\ bi = 0
  /\ existing = {}
  /\ chapter = 0
  /\ chapter_verses = NoneVal
  /\ attempt = 0
  /\ book_added = 0
  /\ total_added = 0
  /\ total_missing = 0
  /\ err = "none"
  /\ db \in InitialStores
  /\ work = db
  /\ other = "idle"
  /\ otherWrites = 0
  /\ start_db = db
  /\ scanned = NoScan
  /\ fetched = {}
  /\ failedFetch = {}
  /\ inserts = EmptyBag
  /\ tried = {}
  /\ raced = {}
  /\ attempts = 0
  /\ delays = <<>>
  /\ first_keys = {}
  /\ first_err = "none"
  /\ first_scanned = NoScan
  /\ log = <<>>
  /\ eval_out = "none"

\* main(), after conn = sqlite3.connect(DB_PATH) and the first statistics
Init ==
  /\ InitCommon
  /\ entry = "main"
  /\ pc = "main"
  /\ ti = 1
  /\ translation_id = "none"
  /\ prov = AnyVal
  /\ eval_in = NoEval


\* ------------------------------------------------------- pure helpers
\* get_existing_verses: SELECT chapter, verse ... WHERE translation_id = ? AND book_id = ?
\* as a Python set of (chapter, verse) tuples; verse comes back as an int
ExistingVerses(store, t, b) ==
  {<<r.chapter, r.verse>> : r \in {q \in BagToSet(store) : q.translation_id = t /\ q.book_id = b}}

\* faulty variant: the threshold left out
IsCompleteExact(n, expected_total) == n >= expected_total

\* len(existing) >= expected_total * 0.95; the float product and the comparison
\* are exact for every count below 3000, so 100 * n >= 95 * expected_total
IsComplete(n, expected_total) == 100 * n >= 95 * expected_total

\* faulty variant: the check of the provider-name mapping left out
DocDecisionNoMapping(names, counts, book_name, n) ==
  IF IsComplete(n, Get(counts, book_name, 0)) THEN "SKIP" ELSE "REPAIR"

\* the document step of repair_translation, up to its decision: the two
\* look-ups with their defaults, then the threshold test
DocDecision(names, counts, book_name, n) ==
  IF Get(names, book_name, "") = "" THEN "UNMAPPED"
  ELSE IF IsComplete(n, Get(counts, book_name, 0)) THEN "SKIP"
  ELSE "REPAIR"

ExpectedTotal(book_name) == Get(VERSE_COUNTS, book_name, 0)
NumChapters(book_name) == Get(CHAPTERS, book_name, 0)

\* Python truth value of v.get('verse', v.get('number', 0)): 0 is false, any
\* non-empty string is true
Truthy(verse_num) == IF verse_num.t = "int" THEN verse_num.n # 0 ELSE TRUE

\* (chapter, verse_num) in existing: a str never equals the int the store returned
InExisting(c, verse_num, ex) == verse_num.t = "int" /\ <<c, verse_num.n>> \in ex

\* the value the INTEGER column verse stores for the bound parameter
\* (a decimal string is converted by column affinity)
Stored(verse_num) == verse_num.n

\* faulty variant: a failed fetch breaks out of the chapter loop
NextChapterBreak(cv, c, n) == IF cv.kind = "none" THEN n + 1 ELSE c + 1

\* faulty variant: a failed fetch is asked again
NextChapterRetry(cv, c, n) == IF cv.kind = "none" THEN c ELSE c + 1

\* the loop variable after one pass of `for chapter in range(1, num_chapters + 1)`
NextChapter(cv, c, n) == c + 1

\* faulty variant: the delay grows with the number of the attempt
CommitDelayBackoff(a) == CommitRetryDelay * (a + 1)

\* the delay before a COMMIT is retried after attempt a failed: time.sleep(2)
CommitDelay(a) == CommitRetryDelay

\* faulty variant: the delay is doubled after a request that failed
DelayAfterBackoff(cv) == IF cv.kind = "none" THEN 2 * RequestDelay ELSE RequestDelay

\* the delay at the end of a pass of the chapter loop: time.sleep(0.1) stands
\* outside `if chapter_verses:`, whatever download_chapter returned
DelayAfter(cv) == RequestDelay

\* faulty variant: any OperationalError is retried
InsertRetryableAny(outcome, a) == outcome \in {"locked", "error"} /\ a < 2

\* if "locked" in str(e) and attempt < 2
InsertRetryable(outcome, a) == outcome = "locked" /\ a < 2

\* faulty variant: the last attempt is taken for a retry as well, so the loop
\* ends without a commit and without an exception
CommitRetryableAlways(outcome, a) == outcome = "locked"

\* faulty variant: any OperationalError is retried
CommitRetryableAny(outcome, a) == outcome \in {"locked", "error"} /\ a < 4

\* if "locked" in str(e) and attempt < 4
CommitRetryable(outcome, a) == outcome = "locked" /\ a < 4

\* what cursor.execute(INSERT ...) does with `row` now
InsertOutcome(row) ==
  CASE other = "fault" -> "error"
    [] other = "writing" /\ ~InTxn -> "locked"
    [] StoreRejects(work, row) -> "integrity"
    [] OTHER -> "ok"

\* what conn.commit() does now; without an open transaction it is a no-op
CommitOutcome ==
  CASE ~InTxn -> "ok"
    [] other = "fault" -> "error"
    [] other = "reading" -> "locked"
    [] OTHER -> "ok"

\* The statement returns when the busy timeout is over or the other connection
\* has ended its transaction; another one may begin before the next statement.
\* A failing store keeps failing.
AfterStatement == IF other = "fault" THEN "fault" ELSE "idle"

\* faulty variant: the connection in autocommit mode (isolation_level=None)
DurableAfterInsertAutocommit(committed, view) == view

\* the committed rows after a statement on conn = sqlite3.connect(DB_PATH): the
\* default isolation level opens a transaction before the INSERT and leaves it
\* open, so the statement changes the connection's view alone
DurableAfterInsert(committed, view) == committed

\* one entry of the history log; c and v are 0 where the operation has none
Event(op, t, b, c, v) == [op |-> op, t |-> t, b |-> b, c |-> c, v |-> v]

Book == BooksTable[bi]
\* v, the element the verse loop is at
Item == Head(chapter_verses.items)
\* faulty variant: the loop stays at the element it is at
AdvanceStuck == chapter_verses
\* the iterator moves on
Advance == [chapter_verses EXCEPT !.items = Tail(@)]
CurrentRow == Row(translation_id, Book.id, chapter, Stored(Item.verse), Item.text)

\* ------------------------------------------------------------ the engine
\* main: for trans_id in TRANSLATIONS.keys(): repair_translation(conn, trans_id);
\* then the final statistics and conn.close()
MainNext ==
  /\ pc = "main"
  /\ IF ti <= Len(TranslationKeys)
       THEN /\ translation_id' = TranslationKeys[ti]
            /\ pc' = "repair"
       ELSE /\ translation_id' = "none"
            /\ pc' = "done"
  /\ UNCHANGED << entry, run, ti, bi, existing, chapter, chapter_verses, attempt,
                  book_added, total_added, total_missing, err, db, work, other,
                  otherWrites, inputVars, historyVars >>

\* repair_translation returns to its caller
ReturnTo ==
  /\ pc' = IF entry = "main" THEN "main" ELSE "returned"
  /\ ti' = IF entry = "main" THEN ti + 1 ELSE ti

\* faulty variant: the added total is carried over from the source before
RepairStartKeepAdded ==
  /\ pc = "repair"
  /\ IF Get(TRANSLATIONS, translation_id, "") = ""
       THEN /\ ReturnTo
            /\ UNCHANGED << bi, total_added, total_missing >>
       ELSE /\ total_missing' = 0
            /\ bi' = 1
            /\ pc' = "book"
            /\ UNCHANGED << ti, total_added >>
  /\ UNCHANGED << entry, run, translation_id, existing, chapter, chapter_verses,
                  attempt, book_added, err, db, work, other, otherWrites, inputVars,
                  historyVars >>

\* faulty variant: the provider code is not looked up before the document loop
RepairStartNoLookup ==
  /\ pc = "repair"
  /\ total_added' = 0
  /\ total_missing' = 0
  /\ bi' = 1
  /\ pc' = "book"
  /\ UNCHANGED ti
  /\ UNCHANGED << entry, run, translation_id, existing, chapter, chapter_verses,
                  attempt, book_added, err, db, work, other, otherWrites, inputVars,
                  historyVars >>

\* repair_translation, up to the document loop
RepairStart ==
  /\ pc = "repair"
  /\ IF Get(TRANSLATIONS, translation_id, "") = ""
       THEN /\ ReturnTo
            /\ UNCHANGED << bi, total_added, total_missing >>
       ELSE /\ total_added' = 0
            /\ total_missing' = 0
            /\ bi' = 1
            /\ pc' = "book"
            /\ UNCHANGED ti
  /\ UNCHANGED << entry, run, translation_id, existing, chapter, chapter_verses,
                  attempt, book_added, err, db, work, other, otherWrites, inputVars,
                  historyVars >>

\* one pass of `for book_id, book_name in books` up to the chapter loop, or the
\* summary line and the return when the loop is over
BookStep ==
  /\ pc = "book"
  /\ IF bi > Len(BooksTable)
       THEN /\ ReturnTo
            /\ bi' = 0
            /\ UNCHANGED << existing, chapter, attempt, book_added, scanned, log >>
       ELSE LET ex == ExistingVerses(work, translation_id, Book.id)
                d  == DocDecision(BOOK_NAMES, VERSE_COUNTS, Book.name, Cardinality(ex))
            IN  /\ UNCHANGED ti
                /\ CASE d = "UNMAPPED" ->
                          /\ bi' = bi + 1
                          /\ pc' = "book"
                          /\ UNCHANGED << existing, chapter, attempt, book_added, scanned, log >>
                     [] d = "SKIP" ->
                          /\ bi' = bi + 1
                          /\ pc' = "book"
                          /\ existing' = {}
                          /\ scanned' = [scanned EXCEPT ![<<translation_id, Book.id>>] = Cardinality(ex)]
                          /\ log' = Append(log, Event("scan", translation_id, Book.id, 0, 0))
                          /\ UNCHANGED << chapter, attempt, book_added >>
                     [] d = "REPAIR" ->
                          /\ existing' = ex
                          /\ scanned' = [scanned EXCEPT ![<<translation_id, Book.id>>] = Cardinality(ex)]
                          /\ log' = Append(log, Event("scan", translation_id, Book.id, 0, 0))
                          /\ book_added' = 0
                          /\ chapter' = 1
                          /\ attempt' = 0
                          /\ pc' = IF 1 <= NumChapters(Book.name) THEN "fetch" ELSE "commit"
                          /\ UNCHANGED bi
  /\ UNCHANGED << entry, run, translation_id, chapter_verses, total_added,
                  total_missing, err, db, work, other, otherWrites, inputVars, start_db,
                  fetched, failedFetch, inserts, tried, raced, attempts, delays, first_keys,
                  first_err, first_scanned >>

\* chapter_verses = download_chapter(translation_code, book_api, chapter):
\* None after any exception, else data.get('verses', data.get('data', []))
DownloadChapter ==
  /\ pc = "fetch"
  /\ \E p \in Payloads :
       /\ (prov = AnyVal /\ p \in FreePayloads) \/ p = prov
       /\ chapter_verses' = p
       /\ failedFetch' = IF p = NoneVal
                           THEN failedFetch \cup {<<translation_id, Book.id, chapter>>}
                           ELSE failedFetch
  /\ fetched' = fetched \cup {<<translation_id, Book.id, chapter>>}
  /\ log' = Append(log, Event("fetch", translation_id, Book.id, chapter, 0))
  /\ pc' = "verses"
  /\ UNCHANGED << entry, run, ti, translation_id, bi, existing, chapter, attempt,
                  book_added, total_added, total_missing, err, db, work, other,
                  otherWrites, inputVars, start_db, scanned, inserts, tried, raced,
                  attempts, delays, first_keys, first_err, first_scanned >>

\* `if chapter_verses:` and one pass of `for v in chapter_verses` up to the INSERT
VerseStep ==
  /\ pc = "verses"
  /\ CASE chapter_verses.kind = "none" ->
            /\ pc' = "sleep"
            /\ UNCHANGED << chapter_verses, attempt, err, attempts, delays >>
       [] chapter_verses.kind = "nonlist" ->
            \* iterating a number, or calling .get on a str
            /\ pc' = "failed"
            /\ err' = "payload"
            /\ UNCHANGED << chapter_verses, attempt, attempts, delays >>
       [] chapter_verses.kind = "list" ->
            IF chapter_verses.items = <<>>
              THEN /\ pc' = "sleep"
                   /\ UNCHANGED << chapter_verses, attempt, err, attempts, delays >>
              ELSE IF ~Item.isdict
                THEN /\ pc' = "failed"
                     /\ err' = "payload"
                     /\ UNCHANGED << chapter_verses, attempt, attempts, delays >>
                ELSE IF ~Truthy(Item.verse) \/ Item.text = ""
                       \/ InExisting(chapter, Item.verse, existing)
                  THEN /\ chapter_verses' = Advance
                       /\ pc' = "verses"
                       /\ UNCHANGED << attempt, err, attempts, delays >>
                  ELSE /\ attempt' = 0
                       /\ attempts' = 0
                       /\ delays' = <<>>
                       /\ pc' = "insert"
                       /\ UNCHANGED << chapter_verses, err >>
  /\ UNCHANGED << entry, run, ti, translation_id, bi, existing, chapter,
                  book_added, total_added, total_missing, db, work,
                  other, otherWrites, inputVars, start_db, scanned, fetched, failedFetch,
                  inserts, tried, raced, first_keys, first_err, first_scanned, log >>

Max(a, b) == IF a >= b THEN a ELSE b

\* one pass of `for attempt in range(3)`: the INSERT, its three except clauses,
\* time.sleep(1) before a retry
InsertAttempt ==
  /\ pc = "insert"
  /\ attempts' = attempts + 1
  /\ delays' = IF InsertRetryable(InsertOutcome(CurrentRow), attempt)
                 THEN Append(delays, InsertRetryDelay)
                 ELSE delays
  /\ other' = AfterStatement
  /\ log' = IF InsertOutcome(CurrentRow) = "ok"
              THEN Append(log, Event("insert", translation_id, Book.id, chapter,
                                     CurrentRow.verse))
              ELSE log
  /\ LET o == InsertOutcome(CurrentRow)
         k == Key(CurrentRow)
     IN  CASE o = "ok" ->
                /\ work' = InsertRow(work, CurrentRow)
                /\ book_added' = book_added + 1
                /\ total_added' = total_added + 1
                /\ inserts' = inserts (+) SetToBag({k})
                /\ tried' = tried \cup {k}
                /\ chapter_verses' = Advance
                /\ pc' = "verses"
                /\ UNCHANGED << attempt, err >>
           [] o = "integrity" ->
                /\ tried' = tried \cup {k}
                /\ chapter_verses' = Advance
                /\ pc' = "verses"
                /\ UNCHANGED << work, book_added, total_added, inserts, attempt, err >>
           [] o \in {"locked", "error"} ->
                IF InsertRetryable(o, attempt)
                  THEN /\ attempt' = attempt + 1
                       /\ IF attempt + 1 < InsertAttempts
                            THEN /\ pc' = "insert"
                                 /\ UNCHANGED chapter_verses
                            ELSE /\ pc' = "verses"
                                 /\ chapter_verses' = Advance
                       /\ UNCHANGED << work, book_added, total_added, inserts, tried, err >>
                  ELSE /\ err' = IF o = "locked" THEN "insert_locked" ELSE "insert_error"
                       /\ pc' = "failed"
                       /\ UNCHANGED << work, book_added, total_added, inserts, tried,
                                       attempt, chapter_verses >>
  /\ db' = DurableAfterInsert(db, work')
  /\ UNCHANGED << entry, run, ti, translation_id, bi, existing, chapter,
                  total_missing, otherWrites, inputVars,
                  start_db, scanned, fetched, failedFetch, raced, first_keys,
                  first_err, first_scanned >>

\* time.sleep(0.1) and the step of the chapter loop
ChapterDelay ==
  /\ pc = "sleep"
  /\ chapter' = NextChapter(chapter_verses, chapter, NumChapters(Book.name))
  /\ pc' = IF chapter' <= NumChapters(Book.name) THEN "fetch" ELSE "commit"
  /\ chapter_verses' = NoneVal
  /\ attempt' = 0
  /\ attempts' = 0
  /\ delays' = <<>>
  /\ log' = Append(log, Event("delay", translation_id, Book.id, chapter,
                               DelayAfter(chapter_verses)))
  /\ UNCHANGED << entry, run, ti, translation_id, bi, existing, book_added,
                  total_added, total_missing, err, db, work, other, otherWrites,
                  inputVars, start_db, scanned, fetched, failedFetch, inserts, tried,
                  raced, first_keys, first_err, first_scanned >>

\* faulty variant: the units added in this run are not taken off the estimate
AfterCommitForgetAdded ==
  /\ total_missing' = total_missing
        + Max(0, ExpectedTotal(Book.name) - Cardinality(existing))
  /\ bi' = bi + 1
  /\ existing' = {}
  /\ chapter' = 0
  /\ book_added' = 0
  /\ pc' = "book"

\* the rest of the document step once the commit loop is left without an exception
AfterCommit ==
  /\ total_missing' = total_missing
        + Max(0, ExpectedTotal(Book.name) - Cardinality(existing) - book_added)
  /\ bi' = bi + 1
  /\ existing' = {}
  /\ chapter' = 0
  /\ book_added' = 0
  /\ pc' = "book"

\* one pass of `for attempt in range(5)`: conn.commit(), time.sleep(2) before a retry
CommitAttempt ==
  /\ pc = "commit"
  /\ attempts' = attempts + 1
  /\ delays' = IF CommitRetryable(CommitOutcome, attempt)
                 THEN Append(delays, CommitDelay(attempt))
                 ELSE delays
  /\ other' = AfterStatement
  /\ log' = IF CommitOutcome = "ok"
              THEN Append(log, Event("commit", translation_id, Book.id, 0, 0))
              ELSE log
  /\ LET o == CommitOutcome
     IN  CASE o = "ok" ->
                /\ db' = work
                /\ AfterCommit
                /\ UNCHANGED << attempt, err >>
           [] o \in {"locked", "error"} ->
                IF CommitRetryable(o, attempt)
                  THEN /\ attempt' = attempt + 1
                       /\ IF attempt + 1 < CommitAttempts
                            THEN UNCHANGED << pc, bi, existing, chapter, book_added,
                                              total_missing >>
                            ELSE AfterCommit
                       /\ UNCHANGED << db, err >>
                  ELSE /\ err' = IF o = "locked" THEN "commit_locked" ELSE "commit_error"
                       /\ pc' = "failed"
                       /\ UNCHANGED << db, attempt, bi, existing, chapter, book_added,
                                       total_missing >>
  /\ UNCHANGED << entry, run, ti, translation_id, chapter_verses, total_added,
                  work, otherWrites, inputVars, start_db, scanned, fetched,
                  failedFetch, inserts, tried, raced, first_keys, first_err, first_scanned >>

\* faulty variant: the caller catches the exception and goes on with the next source
ProcessExitContinue ==
  /\ pc = "failed"
  /\ ReturnTo
  /\ work' = db
  /\ UNCHANGED << entry, run, translation_id, bi, existing, chapter,
                  chapter_verses, attempt, book_added, total_added,
                  total_missing, err, db, other, otherWrites, inputVars, historyVars >>

\* the exception leaves main: the interpreter exits and the connection is
\* closed without a commit, which rolls its transaction back
ProcessExit ==
  /\ pc = "failed"
  /\ pc' = "aborted"
  /\ work' = db
  /\ UNCHANGED << entry, run, ti, translation_id, bi, existing, chapter,
                  chapter_verses, attempt, book_added, total_added,
                  total_missing, err, db, other, otherWrites, inputVars, historyVars >>

\* --------------------------------------------- the other connections
\* The engine reads the state of the other connections only when it executes an
\* INSERT or a COMMIT, so their steps are taken right before one of these.
AtStatement == pc \in {"insert", "commit"}

\* keys another writer may add, each with its own text
OtherKeys == {<<"KJV", 31, 1, 1>>, <<"ASV", 37, 1, 1>>}
OtherRow(k) == Row(k[1], k[2], k[3], k[4], "theirs")

\* the engine is between its scan of k's document and that document's commit
ScannedDocOf(k) ==
  /\ pc \in {"fetch", "verses", "insert", "sleep", "commit"}
  /\ translation_id = k[1]
  /\ Book.id = k[2]

\* another connection takes the write lock; it cannot while the engine holds it
OtherBeginWrite ==
  /\ AtStatement
  /\ other = "idle"
  /\ ~InTxn
  /\ other' = "writing"
  /\ UNCHANGED << engineVars, entry, run, db, work, otherWrites, inputVars, historyVars >>

\* another connection inserts a missing unit
OtherInsert(k) ==
  /\ AtStatement
  /\ other = "writing"
  /\ otherWrites < MaxOtherWrites
  /\ KeyCount(db, k) = 0
  /\ db' = InsertRow(db, OtherRow(k))
  /\ work' = db'
  /\ otherWrites' = otherWrites + 1
  /\ raced' = IF ScannedDocOf(k) THEN raced \cup {k} ELSE raced
  /\ UNCHANGED << engineVars, entry, run, other, inputVars, start_db, scanned, fetched,
                  failedFetch, inserts, tried, attempts, delays, first_keys, first_err,
                  first_scanned, log >>

\* another connection reads: it holds a shared lock, which blocks a commit
OtherBeginRead ==
  /\ AtStatement
  /\ other = "idle"
  /\ other' = "reading"
  /\ UNCHANGED << engineVars, entry, run, db, work, otherWrites, inputVars, historyVars >>

\* the other connection ends its transaction
OtherEnd ==
  /\ AtStatement
  /\ other \in {"reading", "writing"}
  /\ other' = "idle"
  /\ UNCHANGED << engineVars, entry, run, db, work, otherWrites, inputVars, historyVars >>

\* the store starts to fail with an OperationalError that is no lock error
\* (disk full, I/O error, read-only file)
StoreFault ==
  /\ AtStatement
  /\ other = "idle"
  /\ other' = "fault"
  /\ UNCHANGED << engineVars, entry, run, db, work, otherWrites, inputVars, historyVars >>

\* ------------------------------------------------------- specifications
Next ==
  \/ MainNext
  \/ RepairStart
  \/ BookStep
  \/ DownloadChapter
  \/ VerseStep
  \/ InsertAttempt
  \/ ChapterDelay
  \/ CommitAttempt
  \/ ProcessExit
  \/ OtherBeginWrite
  \/ \E k \in OtherKeys : OtherInsert(k)
  \/ OtherBeginRead
  \/ OtherEnd
  \/ StoreFault

Spec == Init /\ [][Next]_vars

\* the steps of the engine. Each of them ends: urlopen is given a timeout, a
\* statement on a locked store returns with an error once the busy timeout has
\* passed, and every sleep is finite. So the engine, as long as it has a step
\* to take, takes it, whatever the other connections do meanwhile.
EngineNext ==
  \/ MainNext
  \/ RepairStart
  \/ BookStep
  \/ DownloadChapter
  \/ VerseStep
  \/ InsertAttempt
  \/ ChapterDelay
  \/ CommitAttempt
  \/ ProcessExit

SpecFair == Spec /\ WF_vars(EngineNext)


\* the translation_id a caller passes: a key of TRANSLATIONS, or an id that is none
CallArguments == DOMAIN TRANSLATIONS \cup {"NIV"}

\* ---- repair_translation called twice in sequence on the same store, the
\* provider giving the same answer to every request of both calls, no other
\* connection
InitTwice ==
  /\ InitCommon
  /\ entry = "repair"
  /\ pc = "repair"
  /\ ti = 0
  /\ translation_id \in CallArguments
  /\ prov \in Payloads
  /\ eval_in = NoEval

\* the second call, on a fresh connection
Rerun ==
  /\ pc \in {"returned", "aborted"}
  /\ run = 1
  /\ run' = 2
  /\ pc' = "repair"
  /\ first_keys' = Keys(db)
  /\ first_err' = err
  /\ first_scanned' = scanned
  /\ log' = <<>>
  /\ err' = "none"
  /\ bi' = 0
  /\ existing' = {}
  /\ chapter' = 0
  /\ chapter_verses' = NoneVal
  /\ attempt' = 0
  /\ book_added' = 0
  /\ total_added' = 0
  /\ total_missing' = 0
  /\ start_db' = db
  /\ scanned' = NoScan
  /\ fetched' = {}
  /\ failedFetch' = {}
  /\ inserts' = EmptyBag
  /\ tried' = {}
  /\ raced' = {}
  /\ attempts' = 0
  /\ delays' = <<>>
  /\ UNCHANGED << entry, ti, translation_id, db, work, other, otherWrites, inputVars >>

NextTwice ==
  \/ RepairStart
  \/ BookStep
  \/ DownloadChapter
  \/ VerseStep
  \/ InsertAttempt
  \/ ChapterDelay
  \/ CommitAttempt
  \/ ProcessExit
  \/ Rerun

SpecTwice == InitTwice /\ [][NextTwice]_vars

\* ---- the document decision on its own, over the results its look-ups can have
\* most rows a document holds at its scan
MaxExisting == 40

NameTables == {BOOK_NAMES, BOOK_NAMES @@ ("Tobit" :> "tobit")}
CountTables == {VERSE_COUNTS, VERSE_COUNTS @@ ("Tobit" :> 14)}

InitEval ==
  /\ InitCommon
  /\ entry = "eval"
  /\ pc = "eval"
  /\ ti = 0
  /\ translation_id = "none"
  /\ prov = AnyVal
  /\ eval_in \in [names : NameTables, counts : CountTables,
                  book_name : {"Obadiah", "Tobit", "Haggai"}, n : 0..MaxExisting]

Evaluate ==
  /\ pc = "eval"
  /\ eval_out = "none"
  /\ eval_out' = DocDecision(eval_in.names, eval_in.counts, eval_in.book_name, eval_in.n)
  /\ UNCHANGED << engineVars, entry, run, db, work, other, otherWrites, prov, eval_in,
                  historyVars >>

SpecEval == InitEval /\ [][Evaluate]_vars

\* ------------------------------------------------------------- properties
Finished == pc \in {"done", "returned", "aborted"}

DocOfKey(k) == <<k[1], k[2]>>
ChapterOfKey(k) == <<k[1], k[2], k[3]>>

\* C1: two calls of repair_translation in sequence, same provider answers, no
\* other writer: after the second call the store has the key set it had after
\* the first, holds no key twice, and the second call raised nothing.
Idempotence ==
  (run = 2 /\ Finished /\ first_err = "none") =>
     /\ Keys(db) = first_keys
     /\ NoDuplicateKeys(db)
     /\ err = "none"

\* C2: every unit the store held when the run started is still in it, key and
\* text, in the committed rows and in the rows the engine reads.
Additivity == (start_db \sqsubseteq db) /\ (start_db \sqsubseteq work)

\* a finished run in which the engine inserted under a key the store already held
AdditivityWitness ==
  /\ pc = "done"
  /\ \E k \in BagToSet(inserts) : k \in Keys(start_db) /\ KeyCount(db, k) >= 2

\* C3: within one run the engine inserts each key successfully at most once.
EachKeyWrittenOnce == \A k \in BagToSet(inserts) : CopiesIn(k, inserts) <= 1

\* C4: a key another writer inserted after the engine's scan of its document and
\* before the engine's own insert is held once, and the engine's insert of it
\* was not counted as added.
UniquenessUnderRace ==
  \A k \in raced \cap tried : KeyCount(work, k) = 1 /\ ~BagIn(k, inserts)

\* C5: a document scanned with at least 0.95 (19/20) of its expected count gets no
\* fetch request and no insert.
ThresholdBehaviour ==
  \A d \in Docs :
    (scanned[d] >= 0 /\ 20 * scanned[d] >= 19 * ExpectedTotal(BookName(d[2]))) =>
       /\ \A f \in fetched : <<f[1], f[2]>> # d
       /\ \A k \in BagToSet(inserts) : DocOfKey(k) # d

\* a finished run that skipped Haggai at 37 of 38 and fetched for another document
ThresholdWitness ==
  /\ pc = "done"
  /\ scanned[<<"KJV", 37>>] = 37
  /\ fetched # {}

Mapped(d) == BookName(d[2]) \in DOMAIN BOOK_NAMES

\* C6: a subdivision whose fetch returned None adds no unit, and the run that
\* ends without an exception has fetched every subdivision of every document it
\* chose to repair and has scanned every mapped document of every source.
FetchFailureIsolation ==
  /\ \A f \in failedFetch : \A k \in BagToSet(inserts) : ChapterOfKey(k) # f
  /\ pc = "done" =>
       \A d \in Docs : Mapped(d) =>
          /\ scanned[d] >= 0
          /\ 20 * scanned[d] < 19 * ExpectedTotal(BookName(d[2])) =>
                \A c \in 1..NumChapters(BookName(d[2])) : <<d[1], d[2], c>> \in fetched

\* a finished run whose first fetch of ASV Haggai failed and whose second added a unit
FetchFailureWitness ==
  /\ pc = "done"
  /\ <<"KJV", 31, 1>> \in failedFetch
  /\ <<"ASV", 37, 1>> \in failedFetch
  /\ <<"ASV", 37, 2>> \in fetched \ failedFetch
  /\ BagIn(<<"ASV", 37, 2, 1>>, inserts)

\* C7: no payload makes the run raise.
MalformedPayloadIsNoData == err # "payload"

InsertStep == pc = "insert" /\ attempts' # attempts

\* C9: a unit's INSERT is executed at most 3 times, again only after a lock
\* error, and the run fails with the lock error exactly when the third
\* execution hits one.
BoundedInsertRetry ==
  [][ InsertStep =>
        /\ attempts' <= 3
        /\ pc' = "insert" => InsertOutcome(CurrentRow) = "locked"
        /\ (pc' = "failed" /\ err' = "insert_locked")
              <=> (attempts = 2 /\ InsertOutcome(CurrentRow) = "locked") ]_vars

\* the third INSERT of a unit hit a lock error and the run failed with it
InsertRetryWitness == pc = "failed" /\ err = "insert_locked" /\ attempts = 3

CommitStep == pc = "commit" /\ attempts' # attempts

\* C10: a document's COMMIT is executed at most 5 times, again only after a lock
\* error, and the run fails with the lock error exactly when the fifth
\* execution hits one.
BoundedCommitRetry ==
  [][ CommitStep =>
        /\ attempts' <= 5
        /\ pc' = "commit" => CommitOutcome = "locked"
        /\ (pc' = "failed" /\ err' = "commit_locked")
              <=> (attempts = 4 /\ CommitOutcome = "locked") ]_vars

\* the fifth COMMIT of a document hit a lock error and the run failed with it
CommitRetryWitness == pc = "failed" /\ err = "commit_locked" /\ attempts = 5

\* C11: no bulk request is issued while the engine's connection has an open
\* write transaction (uncommitted inserts of the running document).
NoLockAcrossFetch == pc = "fetch" => ~InTxn

\* number of rows the store holds under key k with the provider's text
EngineUnits(store, k) == CopiesIn(Row(k[1], k[2], k[3], k[4], "new"), store)

\* d is the document the engine is working at, repaired and not yet committed
RunningDoc(d) ==
  /\ pc \in {"fetch", "verses", "insert", "sleep", "commit", "failed", "aborted"}
  /\ d = <<translation_id, Book.id>>

\* C12: the committed store holds none of the units the engine inserted for the
\* document it is working at, also when the run has failed there, and all of the
\* units it inserted for the documents before.
DurableAtCheckpoint ==
  /\ \A k \in BagToSet(inserts) :
        EngineUnits(db, k) = IF RunningDoc(DocOfKey(k)) THEN 0 ELSE CopiesIn(k, inserts)
  /\ \A r \in BagToSet(db) : r.text = "new" => BagIn(Key(r), inserts)

\* a run that failed at ASV Haggai with a unit inserted there, after it had
\* inserted and committed a unit of KJV Obadiah
DurabilityWitness ==
  /\ pc = "aborted"
  /\ BagIn(<<"KJV", 31, 1, 1>>, inserts)
  /\ \E k \in BagToSet(inserts) : DocOfKey(k) = <<"ASV", 37>>
  /\ translation_id = "ASV"

\* C13: a run ends with an exception only when an INSERT hit a lock error on
\* its third attempt or a COMMIT hit one on its fifth.
OnlyContentionIsFatal ==
  pc \in {"failed", "aborted"} =>
     \/ err = "insert_locked" /\ attempts = InsertAttempts
     \/ err = "commit_locked" /\ attempts = CommitAttempts

\* the log entries of document d
EventsOf(d) == {i \in 1..Len(log) : log[i].t = d[1] /\ log[i].b = d[2]}

\* no scan, request, insert or commit was made for d
Untouched(d) ==
  /\ scanned[d] = -1
  /\ EventsOf(d) = {}
  /\ \A f \in fetched : <<f[1], f[2]>> # d
  /\ \A k \in BagToSet(inserts) : DocOfKey(k) # d

\* the document loop is at a row whose name has no provider-name mapping
UnmappedStep ==
  pc = "book" /\ bi <= Len(BooksTable) /\ ~Mapped(<<translation_id, Book.id>>)

\* C14: a document without provider-name mapping gets no scan, no request, no
\* insert and no commit, and the step that passes it changes neither the added
\* total, nor the still-missing total, nor the store.
UnmappedSkippedEntirely ==
  /\ [](\A d \in Docs : ~Mapped(d) => Untouched(d))
  /\ [][ UnmappedStep =>
           /\ total_added' = total_added
           /\ total_missing' = total_missing
           /\ db' = db /\ work' = work
           /\ pc' = "book" /\ bi' = bi + 1 ]_vars

\* a finished run that passed the unmapped row of both sources and added a unit
\* to a document after it
UnmappedWitness ==
  /\ pc = "done"
  /\ Untouched(<<"KJV", 35>>) /\ Untouched(<<"ASV", 35>>)
  /\ BagIn(<<"ASV", 37, 1, 1>>, inserts)

KeysOfDoc(keys, d) == {k \in keys : DocOfKey(k) = d}

\* the first call found d below the threshold and left it at or above it
RepairedByFirstPass(d) ==
  /\ d[1] = translation_id
  /\ first_scanned[d] >= 0
  /\ 20 * first_scanned[d] < 19 * ExpectedTotal(BookName(d[2]))
  /\ 20 * Cardinality(KeysOfDoc(first_keys, d)) >= 19 * ExpectedTotal(BookName(d[2]))

\* C15: when a first call of repair_translation raises a document's count from
\* below the threshold to at or above it, the second call on the resulting store
\* makes no request and no insert for that document, and passes it as complete
\* with the count the first call left.
SecondPassNoOp ==
  (run = 2 /\ first_err = "none") =>
     \A d \in Docs : RepairedByFirstPass(d) =>
        /\ \A i \in EventsOf(d) : log[i].op = "scan"
        /\ \A f \in fetched : <<f[1], f[2]>> # d
        /\ \A k \in BagToSet(inserts) : DocOfKey(k) # d
        /\ pc = "returned" =>
             /\ scanned[d] = Cardinality(KeysOfDoc(first_keys, d))
             /\ err = "none"

\* the first call found KJV Obadiah at 19 of 21 and the second call passed it at 20
SecondPassWitness ==
  /\ run = 2 /\ pc = "returned"
  /\ first_scanned[<<"KJV", 31>>] = 19
  /\ scanned[<<"KJV", 31>>] = 20
  /\ total_added = 0

\* the verse loop is at a unit whose key, as the store holds it, is in `existing`
AtPresentUnit ==
  /\ pc = "verses"
  /\ chapter_verses.kind = "list"
  /\ chapter_verses.items # <<>>
  /\ Item.isdict
  /\ <<chapter, Stored(Item.verse)>> \in existing

\* C16: for a fetched unit whose (chapter, verse) key is in the set read at the
\* start of the document, no insert is attempted and the added counters and the
\* store stay as they are.
SkipPresentKeys ==
  [][ AtPresentUnit =>
        /\ pc' # "insert"
        /\ book_added' = book_added
        /\ total_added' = total_added
        /\ work' = work ]_vars

\* the engine executes the INSERT of a unit whose key the store already holds,
\* and no lock or other store error stops the statement
InsertOfHeldKey ==
  /\ InsertStep
  /\ KeyCount(work, Key(CurrentRow)) > 0
  /\ InsertOutcome(CurrentRow) \notin {"locked", "error"}

ChosenForRepair(d) ==
  scanned[d] >= 0 /\ 20 * scanned[d] < 19 * ExpectedTotal(BookName(d[2]))

\* number of bulk requests made for subdivision c of d
FetchCount(d, c) ==
  Cardinality({i \in 1..Len(log) :
                 log[i].op = "fetch" /\ log[i].t = d[1] /\ log[i].b = d[2] /\ log[i].c = c})

\* entry i of the history is a successful commit of d
IsCommitOf(i, d) == log[i].op = "commit" /\ log[i].t = d[1] /\ log[i].b = d[2]

\* the chapter loop of d has ended
ChapterLoopOver(d) ==
  \/ pc = "done"
  \/ pc = "commit" /\ d = <<translation_id, Book.id>>
  \/ \E i \in 1..Len(log) : IsCommitOf(i, d)

SourceIndex(t) == CHOOSE i \in 1..Len(TranslationKeys) : TranslationKeys[i] = t

DocOfEvent(e) == <<e.t, e.b>>

\* the new last entry of the history after a step that has added one
Logged == log'[Len(log')]

\* e's document is e2's, or comes before it: earlier source, or same source and
\* smaller document id
NotAfter(e, e2) ==
  \/ SourceIndex(e.t) < SourceIndex(e2.t)
  \/ e.t = e2.t /\ e.b <= e2.b

\* C19: every operation the engine adds to the history is in order with all the
\* operations before it: documents follow each other by source and
\* then by ascending id; within a document the scan comes first, the requests
\* go by ascending subdivision with the inserts of a subdivision after its
\* request and before the next, and the commit comes last; a request or insert
\* of one document and an operation of a later one have the first
\* document's commit between them.
SequentialOrder ==
  [][ Len(log') = Len(log) + 1 =>
        \A i \in 1..Len(log) :
           LET e == log[i]
               same == DocOfEvent(e) = DocOfEvent(Logged)
           IN  /\ NotAfter(e, Logged)
               /\ (same /\ e.op = "fetch" /\ Logged.op = "fetch") => e.c < Logged.c
               /\ (same /\ e.op = "fetch" /\ Logged.op = "insert") => e.c <= Logged.c
               /\ (same /\ e.op = "insert" /\ Logged.op = "fetch") => e.c < Logged.c
               /\ (same /\ e.op = "insert" /\ Logged.op = "insert") => e.c <= Logged.c
               /\ same => (e.op # "commit" /\ Logged.op # "scan")
               /\ (~same /\ e.op \in {"fetch", "insert"}) =>
                     \E k \in (i+1)..Len(log) :
                        log[k].op = "commit" /\ DocOfEvent(log[k]) = DocOfEvent(e) ]_vars

\* a finished run that added to KJV Obadiah and to both subdivisions of ASV Haggai
SequentialWitness ==
  /\ pc = "done"
  /\ BagIn(<<"KJV", 31, 1, 1>>, inserts)
  /\ BagIn(<<"ASV", 37, 1, 1>>, inserts)
  /\ BagIn(<<"ASV", 37, 2, 1>>, inserts)

\* the successful commits made for d, as positions of the history
CommitsOf(d) == {i \in 1..Len(log) : IsCommitOf(i, d)}

\* C20: no document is committed twice and none that was not chosen for repair
\* is committed; a document's commit comes after the requests of all its
\* subdivisions; in a run that ends without an exception every document chosen
\* for repair has exactly one commit, also when nothing was added to it.
SingleCheckpoint ==
  /\ \A i \in 1..Len(log) : log[i].op = "commit" =>
        LET d == DocOfEvent(log[i])
        IN  /\ CommitsOf(d) = {i}
            /\ ChosenForRepair(d)
            /\ \A c \in 1..NumChapters(BookName(d[2])) :
                  \E j \in 1..(i-1) :
                     log[j].op = "fetch" /\ DocOfEvent(log[j]) = d /\ log[j].c = c
  /\ pc = "done" =>
        \A d \in Docs : ChosenForRepair(d) => Cardinality(CommitsOf(d)) = 1

\* a finished run that skipped KJV Haggai as complete, committed KJV Obadiah
\* with a unit added, and committed ASV Haggai with nothing added
CheckpointWitness ==
  /\ pc = "done"
  /\ scanned[<<"KJV", 37>>] = 37
  /\ BagIn(<<"KJV", 31, 1, 1>>, inserts)
  /\ \A k \in BagToSet(inserts) : DocOfKey(k) # <<"ASV", 37>>
  /\ Cardinality(CommitsOf(<<"ASV", 37>>)) = 1

\* number of successful inserts made for d
InsertsOf(d) ==
  Cardinality({i \in 1..Len(log) :
                 log[i].op = "insert" /\ log[i].t = d[1] /\ log[i].b = d[2]})

\* what d adds to the estimate: nothing unless its repair ran to the end of the
\* document step, else expected - existing at its scan - added, floored at 0
MissingOf(d) ==
  IF \E i \in 1..Len(log) : IsCommitOf(i, d)
    THEN LET m == ExpectedTotal(BookName(d[2])) - scanned[d] - InsertsOf(d)
         IN  IF m > 0 THEN m ELSE 0
    ELSE 0

RECURSIVE SumMissing(_, _)
SumMissing(t, i) ==
  IF i = 0 THEN 0 ELSE SumMissing(t, i - 1) + MissingOf(<<t, BooksTable[i].id>>)

\* C21: total_missing is never negative, and from the start of the document loop
\* of a source on it is the sum, over the documents of that source repaired so
\* far, of max(0, expected - existing - added), existing being the count read at
\* the document's scan.
StillMissingEstimate ==
  /\ total_missing >= 0
  /\ (pc # "repair" /\ translation_id \in DOMAIN TRANSLATIONS) =>
        total_missing = SumMissing(translation_id, Len(BooksTable))

\* a finished run whose last source had ASV Haggai at 1 of 38 and added 2 units
\* to it, Obadiah being skipped: 35 reported
StillMissingWitness ==
  /\ pc = "done"
  /\ scanned[<<"ASV", 37>>] = 1
  /\ InsertsOf(<<"ASV", 37>>) = 2
  /\ total_missing = 35

\* an INSERT or a COMMIT has used up its lock retries and the exception has left
\* repair_translation
FatalLock == pc \in {"failed", "aborted"} /\ err \in {"insert_locked", "commit_locked"}

\* C22: once an INSERT or a COMMIT has exhausted its lock retries, no step
\* fetches, inserts, attempts a statement or commits any more, for no chapter,
\* document or source, and the run is not started again.
FatalEndsRun ==
  [][ FatalLock =>
        /\ pc' \in {"failed", "aborted"}
        /\ err' = err
        /\ run' = run
        /\ log' = log
        /\ fetched' = fetched
        /\ inserts' = inserts
        /\ attempts' = attempts
        /\ db' = db ]_vars

\* the run ended at an INSERT of the first source that stayed locked: nothing
\* was done for the second source
FatalWitness ==
  /\ pc = "aborted"
  /\ err = "insert_locked"
  /\ translation_id = "KJV"
  /\ Untouched(<<"ASV", 31>>) /\ Untouched(<<"ASV", 37>>)

\* the delays of s grow: each is larger than the one before
StrictlyIncreasing(s) == \A i \in 1..(Len(s) - 1) : s[i] < s[i + 1]

\* the retry loop that is running, or that raised, is the commit loop
InCommitLoop == pc = "commit" \/ err \in {"commit_locked", "commit_error"}

\* C23: the delays waited before the successive retries of one document's commit
\* are strictly increasing.
CommitDelayIncreases == InCommitLoop => StrictlyIncreasing(delays)

\* C23 as the code has it: at most CommitAttempts - 1 delays are waited in one
\* document's commit loop, and each is the same CommitRetryDelay.
CommitDelayFixed ==
  InCommitLoop =>
    /\ Len(delays) <= CommitAttempts - 1
    /\ \A i \in 1..Len(delays) : delays[i] = CommitRetryDelay

\* the fifth commit attempt failed on a lock after four equal delays
CommitDelayWitness ==
  /\ pc = "failed"
  /\ err = "commit_locked"
  /\ delays = << CommitRetryDelay, CommitRetryDelay, CommitRetryDelay, CommitRetryDelay >>

\* the chapter delays between positions i and j of the history
PausesBetween(i, j) == {k \in (i + 1)..(j - 1) : log[k].op = "delay"}

\* no request lies between positions i and j of the history
NoFetchBetween(i, j) == \A k \in (i + 1)..(j - 1) : log[k].op # "fetch"

\* the engine is not between a request and the delay that follows it
ChapterPassOver == pc \notin {"verses", "insert", "sleep", "failed", "aborted"}

\* C24: every chapter delay has the same length RequestDelay, whatever the
\* request before it returned; exactly one lies between a request and the next
\* request, and exactly one follows the last request once its pass of the
\* chapter loop is over.
FixedInterRequestDelay ==
  \A i \in 1..Len(log) :
     /\ log[i].op = "delay" => log[i].v = RequestDelay
     /\ log[i].op = "fetch" =>
          /\ \A j \in (i + 1)..Len(log) :
                (log[j].op = "fetch" /\ NoFetchBetween(i, j)) =>
                   Cardinality(PausesBetween(i, j)) = 1
          /\ (NoFetchBetween(i, Len(log) + 1) /\ ChapterPassOver) =>
                Cardinality(PausesBetween(i, Len(log) + 1)) = 1

\* the request for ASV Haggai 1 failed, the one for chapter 2 brought a unit
\* that was inserted, and the run finished
InterRequestDelayWitness ==
  /\ pc = "done"
  /\ <<"ASV", 37, 1>> \in failedFetch
  /\ BagIn(<<"ASV", 37, 2, 1>>, inserts)

\* the run is over: every source was repaired, or an exception ended the process
RunOver == pc \in {"done", "aborted"}

\* C25: whatever the store held, whatever the provider answers and whatever the
\* other connections do, the run ends, with all sources done or with a fatal error.
Termination == <>RunOver

\* a run that finished although a request failed, a statement found the store
\* locked and another connection wrote a row
TerminationWitness ==
  /\ pc = "done"
  /\ failedFetch # {}
  /\ otherWrites = MaxOtherWrites
  /\ \E k \in BagToSet(inserts) : TRUE

\* number of successful inserts made for source t
InsertsOfSource(t) ==
  Cardinality({i \in 1..Len(log) : log[i].op = "insert" /\ log[i].t = t})

\* C26: from the start of a source's document loop on, total_added is the number
\* of inserts that succeeded for the source in this run, and while a document is
\* being repaired book_added is the number that succeeded for it; so the total is
\* the sum of the documents' counts, and an attempt that failed counted nowhere.
AddedCountersMatch ==
  (pc # "repair" /\ translation_id \in DOMAIN TRANSLATIONS) =>
     /\ total_added = InsertsOfSource(translation_id)
     /\ pc \in {"fetch", "verses", "insert", "sleep", "commit", "failed", "aborted"} =>
           book_added = InsertsOf(<<translation_id, Book.id>>)

\* ASV Haggai: the first INSERT has failed twice on a lock and is about to be
\* tried again, nothing is counted for the source; the first source had added
\* a unit
AddedCountersWitness ==
  /\ pc = "insert"
  /\ attempts = 2
  /\ translation_id = "ASV"
  /\ book_added = 0
  /\ total_added = 0
  /\ InsertsOfSource("KJV") = 1

\* C27: every unit the engine inserted has a verse number that is not zero and
\* a text that is not empty.
UnusableNeverWritten ==
  /\ \A k \in BagToSet(inserts) : k[4] # 0
  /\ \A r \in BagToSet(work) : r.text # ""

\* C28: the estimate changes only when it is reset at the start of a source and
\* at the end of the document step of a document chosen for repair; the step
\* that passes a document as complete, and every step made while such a
\* document is the current one, leaves it as it is.
SkippedLeftOut ==
  [][ total_missing' # total_missing =>
        \/ pc = "repair"
        \/ pc = "commit" /\ ChosenForRepair(<<translation_id, Book.id>>) ]_vars

\* the first source is done: Obadiah at 20 of 21 and Haggai at 37 of 38 were
\* both passed as complete, and the estimate is 0
SkippedLeftOutWitness ==
  /\ pc = "main"
  /\ translation_id = "KJV"
  /\ scanned[<<"KJV", 31>>] = 20
  /\ scanned[<<"KJV", 37>>] = 37
  /\ total_missing = 0

\* C29: a call of repair_translation with an id that is no key of TRANSLATIONS
\* never enters the document loop: it makes no scan, request, insert, statement
\* attempt or commit, leaves the store and the counters as they were, raises
\* nothing, and returns.
UnknownSourceNoOp ==
  translation_id \notin DOMAIN TRANSLATIONS =>
     /\ pc \in {"repair", "returned"}
     /\ log = <<>>
     /\ scanned = NoScan
     /\ fetched = {}
     /\ inserts = EmptyBag
     /\ attempts = 0
     /\ db = start_db
     /\ work = db
     /\ total_added = 0 /\ total_missing = 0
     /\ err = "none"

\* the second call with the unknown id has returned as well
UnknownSourceWitness ==
  /\ translation_id = "NIV"
  /\ run = 2
  /\ pc = "returned"

====
